---------------------------- MODULE Spec2Model ----------------------------
(***************************************************************************)
(* A model of the HTTP/3 core of quinn-h3: the incremental frame decoder   *)
(* (frame.rs, FrameDecoder), the frame writer (frame.rs, WriteFrame), the  *)
(* send driver (data.rs, SendData) and the receive driver (data.rs,        *)
(* RecvData).  The specifications share the module: SpecDecode drives the  *)
(* decoder over a byte stream fed in arbitrary pieces, SpecSend drives one *)
(* SendData over a transport with partial writes, SpecStopped adds the     *)
(* poll_stopped query to it, SpecRecv drives one RecvData over a frame     *)
(* reader, SpecWrite drives one WriteFrame on its own, SpecHalves runs a   *)
(* WriteFrame and a RecvData side by side, and SpecLock runs several       *)
(* drivers over the mutex of one connection.                               *)
(***************************************************************************)
EXTENDS Integers, Sequences, FiniteSets, TLC

(***************************************************************************)
(* Bounds of the model.                                                    *)
(***************************************************************************)
\* longest DATA payload put on the wire of the decoder
MaxData == 3
\* longest HEADERS payload put on the wire of the decoder
MaxHdr == 1
\* number of frames on the wire of the decoder
MaxFrames == 2
\* number of pieces the wire is fed in, unless it is fed one byte at a time
MaxFeeds == 3
\* number of chunks the body yields
MaxChunks == 2
\* longest chunk the body yields
MaxChunk == 2
\* longest QPACK-encoded header block
MaxBlock == 1
\* number of cancel calls
MaxCancels == 2
\* number of times poll is let return from Closing with success
MaxCompletions == 2
\* number of items the frame reader of the receive driver yields
MaxRx == 3
\* number of RecvData::reset calls
MaxResets == 1
\* number of drivers running on one connection
MaxDrivers == 2

(***************************************************************************)
(* The state: the decoder under test, the send driver with its send stream *)
(* and the receive driver with its frame reader.                           *)
(***************************************************************************)
VARIABLES
    frames,     \* the frames put on the wire, in order
    fed,        \* the number of wire bytes appended to the buffer so far
    src,        \* the buffer (BytesMut)
    partial,    \* FrameDecoder.partial
    expected,   \* FrameDecoder.expected
    out,        \* the frames the decoder has yielded
    readable,   \* bytes were appended since decode last returned Ok(None)
    last,       \* the last decode call: its result and the bytes it consumed
    ops,        \* the operations so far: k for a feed of k bytes, 0 for a decode
    sinceFeed,  \* decode calls since the last feed (2 stands for 2 or more)
    feeds,      \* the number of feeds so far
    bytewise    \* the harness feeds one byte at a time and calls decode once after each

decVars == <<frames, fed, src, partial, expected, out, readable, last, ops,
             sinceFeed, feeds, bytewise>>

VARIABLES
    sstate,     \* SendData.state
    headers,    \* SendData.headers is Some
    send,       \* SendData.send is Some
    writer,     \* the WriteFrame of the states Headers, Write and Trailers
    body,       \* the chunks the body has yet to yield
    chunks,     \* the chunks the body yields in all
    block,      \* the QPACK encoding of the headers
    trailers,   \* the QPACK encoding of the trailers the body yields, if any
    finish,     \* SendData.finish
    sent,       \* the bytes the send stream has accepted
    fin,        \* the length of sent when finish was issued on the stream, if it was
    resets,     \* the codes of the resets issued on the send stream
    dropped,    \* the send stream was dropped by its holder
    notified,   \* the number of request_finished calls made on the connection
    running,    \* a poll is in progress (between two iterations of its loop)
    ret,        \* what the last poll returned
    panicked,   \* a poll panicked
    cancels,    \* the number of cancel calls so far
    errored,    \* some poll returned an error
    completions \* the number of polls that returned success from Closing

sendVars == <<sstate, headers, send, writer, body, chunks, block, trailers, finish,
              sent, fin, resets, dropped, notified, running, ret, panicked,
              cancels, errored, completions>>

VARIABLES
    rstate,     \* RecvData.state
    recv,       \* RecvData.recv is Some
    rxAll,      \* what the frame reader yields, in order, before the stream ends
    rpos,       \* the number of items the frame reader has yielded
    decoding,   \* the index in rxAll of the frame held by DecodeHeaders, if any
    submitted,  \* the index in rxAll of the frame given to poll_decode, if any
    stops,      \* the codes of the stop-sending issued on the receive stream
    result,     \* the (Header, RecvBody) a poll has returned, if any
    rrunning,   \* a poll is in progress (between two iterations of its loop)
    rret,       \* what the last poll returned
    rpanicked,  \* a poll panicked
    rresets     \* the number of RecvData::reset calls so far

recvVars == <<rstate, recv, rxAll, rpos, decoding, submitted, stops, result,
              rrunning, rret, rpanicked, rresets>>

VARIABLES
    stopped     \* the last SendData::poll_stopped call: the peer's signal and the result

stopVars == <<stopped>>

VARIABLES
    lock,       \* the driver holding the mutex of the connection (conn.h3), if any
    drv         \* per driver of the connection: its kind, its state and where it runs

connVars == <<lock, drv>>

vars == <<decVars, sendVars, recvVars, stopVars, connVars>>

(***************************************************************************)
(* Option values: None is the empty sequence, Some(x) a singleton.         *)
(***************************************************************************)
None == <<>>
Some(x) == <<x>>

Min(a, b) == IF a < b THEN a ELSE b

RECURSIVE Pow2(_)
Pow2(n) == IF n = 0 THEN 1 ELSE 2 * Pow2(n - 1)

\* the suffix of s after its first n elements (Buf::advance)
Advance(s, n) == SubSeq(s, n + 1, Len(s))

\* the first n elements of s (Buf::take)
Take(s, n) == SubSeq(s, 1, Min(n, Len(s)))

(***************************************************************************)
(* Wire format: varint(type) . varint(length) . payload.  A varint is      *)
(* 1, 2, 4 or 8 bytes, the two high bits of the first byte giving the      *)
(* size.                                                                   *)
(***************************************************************************)
TypeDATA == 0
TypeHEADERS == 1
\* a type of the reserved (grease) range 0x1f * N + 0x21; it needs a 2-byte varint
TypeGREASE == 64

IsReservedType(t) == t >= 33 /\ (t - 33) % 31 = 0

IsKnownType(t) == t \in {0, 1, 3, 4, 5, 7, 13}

RECURSIVE BigEndian(_)
BigEndian(s) ==
    IF s = <<>> THEN 0
    ELSE BigEndian(SubSeq(s, 1, Len(s) - 1)) * 256 + s[Len(s)]

VarIntEncode(v) ==
    IF v < 64 THEN <<v>>
    ELSE IF v < 16384 THEN <<64 + (v \div 256), v % 256>>
    ELSE <<128 + (v \div 16777216), (v \div 65536) % 256, (v \div 256) % 256, v % 256>>

\* [ok, val, len]: the value and the number of bytes read, or ok = FALSE
\* when the buffer ends before the varint does
VarIntDecode(buf) ==
    IF buf = <<>> THEN [ok |-> FALSE, val |-> 0, len |-> 0]
    ELSE LET size == Pow2(buf[1] \div 64)
         IN  IF Len(buf) < size THEN [ok |-> FALSE, val |-> 0, len |-> 0]
             ELSE [ok  |-> TRUE,
                   val |-> BigEndian(<<buf[1] % 64>> \o SubSeq(buf, 2, size)),
                   len |-> size]

\* the frame header a frame of type ty with an n-byte payload is given
EncodeHeader(ty, n) == VarIntEncode(ty) \o VarIntEncode(n)

\* a frame on the wire: [ty, payload]
EncodeFrame(wf) == EncodeHeader(wf.ty, Len(wf.payload)) \o wf.payload

RECURSIVE EncodeAll(_)
EncodeAll(fs) ==
    IF fs = <<>> THEN <<>> ELSE EncodeFrame(Head(fs)) \o EncodeAll(Tail(fs))

(***************************************************************************)
(* Decoded frames (HttpFrame).                                             *)
(***************************************************************************)
DataFrame(p) == [kind |-> "Data", payload |-> p]
HeadersFrame(p) == [kind |-> "Headers", payload |-> p]
ReservedFrame == [kind |-> "Reserved", payload |-> <<>>]
OtherFrame(p) == [kind |-> "Other", payload |-> p]

\* the frame a complete wire frame decodes to
FrameOf(wf) ==
    IF wf.ty = TypeDATA THEN DataFrame(wf.payload)
    ELSE IF wf.ty = TypeHEADERS THEN HeadersFrame(wf.payload)
    ELSE IF IsReservedType(wf.ty) THEN ReservedFrame
    ELSE OtherFrame(wf.payload)

FramesOf(fs) == [i \in 1..Len(fs) |-> FrameOf(fs[i])]

(***************************************************************************)
(* HttpFrame::decode on a cursor over buf: the frame and the cursor        *)
(* position, or Incomplete(min), IncompleteData, or a decode error.        *)
(***************************************************************************)
HttpFrame_decode(buf) ==
    LET t == VarIntDecode(buf)
        l == VarIntDecode(Advance(buf, t.len))
        hdr == t.len + l.len
        bad == [tag |-> "Err", pos |-> 0, min |-> 0, frame |-> ReservedFrame,
                err |-> "None"]
    IN  IF ~t.ok \/ ~l.ok
        THEN [bad EXCEPT !.tag = "Incomplete", !.min = Len(buf) + 1]
        ELSE IF Len(buf) - hdr < l.val
        THEN IF t.val = TypeDATA
             THEN [bad EXCEPT !.tag = "IncompleteData"]
             ELSE [bad EXCEPT !.tag = "Incomplete", !.min = hdr + l.val]
        ELSE IF ~IsKnownType(t.val) /\ ~IsReservedType(t.val)
        THEN [bad EXCEPT !.err = "UnsupportedFrame"]
        ELSE [bad EXCEPT !.tag = "Ok", !.pos = hdr + l.val,
                         !.frame = FrameOf([ty |-> t.val,
                                            payload |-> SubSeq(buf, hdr + 1, hdr + l.val)])]

(***************************************************************************)
(* PartialData::decode: the header of a DATA frame and whatever payload    *)
(* the buffer holds after it; the cursor ends at the end of the buffer.    *)
(***************************************************************************)
PartialData_decode(buf) ==
    LET t == VarIntDecode(buf)
        l == VarIntDecode(Advance(buf, t.len))
        payload == Advance(buf, t.len + l.len)
    IN  [ok        |-> t.ok /\ l.ok,
         pos       |-> Len(buf),
         remaining |-> l.val - Len(payload),
         frame     |-> DataFrame(payload)]

\* PartialData::decode_data: up to `remaining` bytes of the buffer as payload
PartialData_decode_data(remaining, buf) ==
    LET payload == Take(buf, remaining)
    IN  [pos       |-> Len(payload),
         remaining |-> remaining - Len(payload),
         frame     |-> DataFrame(payload)]

(***************************************************************************)
(* FrameDecoder::decode.  A decoder is [src, partial, expected]: the       *)
(* buffer, the bytes still owed to the current DATA frame (an option) and  *)
(* the recorded minimum (an option).  The result adds res, the frame       *)
(* yielded (an option: None is Ok(None)), and err.                         *)
(***************************************************************************)
DecoderOf(s, p, e) == [src |-> s, partial |-> p, expected |-> e]

Yield(d, res, err) ==
    [src |-> d.src, partial |-> d.partial, expected |-> d.expected,
     res |-> res, err |-> err]

\* PartialAfter with the clearing of an exhausted PartialData left out
PartialAfterKept(remaining) == Some(remaining)

\* if partial.remaining() == 0 { self.partial = None }
PartialAfter(remaining) == IF remaining = 0 THEN None ELSE Some(remaining)

\* DecodePartial without src.advance(pos)
DecodePartialNoAdvance(d) ==
    LET r == PartialData_decode_data(d.partial[1], d.src)
    IN  Yield(DecoderOf(d.src, PartialAfter(r.remaining), d.expected),
              Some(r.frame), "None")

\* the branch taken while a PartialData is present
DecodePartial(d) ==
    LET r == PartialData_decode_data(d.partial[1], d.src)
    IN  Yield(DecoderOf(Advance(d.src, r.pos), PartialAfter(r.remaining), d.expected),
              Some(r.frame), "None")

\* Err(IncompleteData): a DATA frame whose payload is not all there
DecodeIncompleteData(d) ==
    LET r == PartialData_decode(d.src)
    IN  IF ~r.ok THEN Yield(d, None, "Malformed")
        ELSE Yield(DecoderOf(Advance(d.src, r.pos), Some(r.remaining), None),
                   IF Len(r.frame.payload) > 0 THEN Some(r.frame) ELSE None,
                   "None")

\* DecodeIncomplete advancing the buffer past the bytes the cursor has read
DecodeIncompleteAdvancing(d, min) ==
    Yield(DecoderOf(<<>>, d.partial, Some(min)), None, "None")

\* Err(Incomplete(min)): record the minimum, consume nothing
DecodeIncomplete(d, min) ==
    Yield(DecoderOf(d.src, d.partial, Some(min)), None, "None")

\* DecodeComplete with the recorded minimum left in place
DecodeCompleteKeepsMin(d, pos, frame) ==
    Yield(DecoderOf(Advance(d.src, pos), d.partial, d.expected), Some(frame), "None")

\* DecodeComplete advancing past the payload but not past the frame header
DecodeCompleteShort(d, pos, frame) ==
    Yield(DecoderOf(Advance(d.src, Len(frame.payload)), d.partial, None),
          Some(frame), "None")

\* Ok(frame): advance past the frame and forget the minimum
DecodeComplete(d, pos, frame) ==
    Yield(DecoderOf(Advance(d.src, pos), d.partial, None), Some(frame), "None")

\* if let Some(min) = self.expected { if src.len() < min { return Ok(None) } }
BelowExpected(d) == d.expected # None /\ Len(d.src) < d.expected[1]

FrameDecoder_decode(d) ==
    IF d.src = <<>> THEN Yield(d, None, "None")
    ELSE IF d.partial # None THEN DecodePartial(d)
    ELSE IF BelowExpected(d) THEN Yield(d, None, "None")
    ELSE LET r == HttpFrame_decode(d.src)
         IN  CASE r.tag = "IncompleteData" -> DecodeIncompleteData(d)
               [] r.tag = "Incomplete"     -> DecodeIncomplete(d, r.min)
               [] r.tag = "Err"            -> Yield(d, None, r.err)
               [] r.tag = "Ok"             -> DecodeComplete(d, r.pos, r.frame)

\* decode called on a fresh decoder holding buf until it yields no frame
RECURSIVE DecodeLoop(_, _)
DecodeLoop(d, acc) ==
    LET r == FrameDecoder_decode(d)
    IN  IF r.res = None THEN acc
        ELSE DecodeLoop(DecoderOf(r.src, r.partial, r.expected), Append(acc, r.res[1]))

DecodeAtOnce(buf) == DecodeLoop(DecoderOf(buf, None, None), <<>>)

(***************************************************************************)
(* The decoder under test.                                                 *)
(***************************************************************************)

Wire == EncodeAll(frames)

\* the payload of the j-th frame: n distinct bytes
PayloadOf(j, n) == [i \in 1..n |-> 16 * j + i]

\* the first frame is of any kind and length; the frames after it are an
\* empty DATA frame, a DATA frame of two bytes, a HEADERS frame or a
\* reserved frame
WireFrames(j) ==
    IF j = 1
    THEN {[ty |-> TypeDATA, payload |-> PayloadOf(j, n)] : n \in 0..MaxData}
         \cup {[ty |-> TypeHEADERS, payload |-> PayloadOf(j, n)] : n \in 0..MaxHdr}
         \cup {[ty |-> TypeGREASE, payload |-> PayloadOf(j, 1)]}
    ELSE {[ty |-> TypeDATA, payload |-> PayloadOf(j, 0)],
          [ty |-> TypeDATA, payload |-> PayloadOf(j, 2)],
          [ty |-> TypeHEADERS, payload |-> PayloadOf(j, 1)],
          [ty |-> TypeGREASE, payload |-> PayloadOf(j, 1)]}

WireSeqs ==
    UNION {{fs \in [1..n -> UNION {WireFrames(j) : j \in 1..n}] :
                \A j \in 1..n : fs[j] \in WireFrames(j)} : n \in 1..MaxFrames}

NoCall == [res |-> None, err |-> "None", consumed |-> 0]

\* the decoder when another part of the program is under test
IdleDecode ==
    /\ frames = <<>>
    /\ fed = 0
    /\ src = <<>>
    /\ partial = None
    /\ expected = None
    /\ out = <<>>
    /\ readable = FALSE
    /\ last = NoCall
    /\ ops = <<>>
    /\ sinceFeed = 0
    /\ feeds = 0
    /\ bytewise = FALSE

\* the send driver when another part of the program is under test
IdleSend ==
    /\ sstate = "Finished"
    /\ headers = FALSE
    /\ send = FALSE
    /\ writer = [st |-> "None", start |-> 0, header |-> <<>>, payload |-> <<>>,
                 holds |-> FALSE]
    /\ chunks = <<>>
    /\ body = <<>>
    /\ block = <<>>
    /\ trailers = None
    /\ finish = FALSE
    /\ sent = <<>>
    /\ fin = None
    /\ resets = <<>>
    /\ dropped = FALSE
    /\ notified = 0
    /\ running = FALSE
    /\ ret = "None"
    /\ panicked = FALSE
    /\ cancels = 0
    /\ errored = FALSE
    /\ completions = 0

\* no poll_stopped call was made
NoStopCall == [called |-> FALSE, peer |-> None, res |-> "None", reason |-> None]

IdleStop == stopped = NoStopCall

\* the connection when no driver takes its mutex
IdleConn ==
    /\ lock = None
    /\ drv = <<>>

\* the receive driver when another part of the program is under test
IdleRecv ==
    /\ rstate = "Finished"
    /\ recv = FALSE
    /\ rxAll = <<>>
    /\ rpos = 0
    /\ decoding = None
    /\ submitted = None
    /\ stops = <<>>
    /\ result = None
    /\ rrunning = FALSE
    /\ rret = "None"
    /\ rpanicked = FALSE
    /\ rresets = 0

InitDecode ==
    /\ IdleSend
    /\ IdleRecv
    /\ IdleStop
    /\ IdleConn
    /\ frames \in WireSeqs
    /\ fed = 0
    /\ src = <<>>
    /\ partial = None
    /\ expected = None
    /\ out = <<>>
    /\ readable = FALSE
    /\ last = NoCall
    /\ ops = <<>>
    /\ sinceFeed = 0
    /\ feeds = 0
    /\ bytewise \in BOOLEAN

Record(op) == Append(ops, op)

\* the transport reader appends the next k bytes of the wire to the buffer,
\* at first or after a decode call
Feed(k) ==
    /\ last.err = "None"
    /\ fed = 0 \/ sinceFeed > 0
    /\ IF bytewise THEN k = 1 ELSE feeds < MaxFeeds
    /\ fed + k <= Len(Wire)
    /\ src' = src \o SubSeq(Wire, fed + 1, fed + k)
    /\ fed' = fed + k
    /\ readable' = TRUE
    /\ ops' = Record(k)
    /\ sinceFeed' = 0
    /\ feeds' = feeds + 1
    /\ UNCHANGED <<frames, partial, expected, out, last, bytewise>>
    /\ UNCHANGED <<sendVars, recvVars, stopVars, connVars>>

\* one call of FrameDecoder::decode on the buffer
Decode ==
    /\ readable
    /\ bytewise => sinceFeed = 0
    /\ LET r == FrameDecoder_decode(DecoderOf(src, partial, expected))
       IN  /\ src' = r.src
           /\ partial' = r.partial
           /\ expected' = r.expected
           /\ out' = IF r.res = None THEN out ELSE Append(out, r.res[1])
           /\ readable' = (r.res # None)
           /\ last' = [res |-> r.res, err |-> r.err,
                       consumed |-> Len(src) - Len(r.src)]
    /\ ops' = Record(0)
    /\ sinceFeed' = Min(sinceFeed + 1, 2)
    /\ UNCHANGED <<frames, fed, feeds, bytewise>>
    /\ UNCHANGED <<sendVars, recvVars, stopVars, connVars>>

NextDecode ==
    \/ \E k \in 1..(MaxFrames * (MaxData + 2)) : Feed(k)
    \/ Decode

SpecDecode == InitDecode /\ [][NextDecode]_vars

(***************************************************************************)
(* WriteFrame: one frame written onto a send stream.  A writer is          *)
(* [st, start, header, payload, holds]: the state (Header with its offset  *)
(* start, Payload, Finished), the encoded frame header, the payload bytes  *)
(* not yet accepted, and whether the writer holds the send stream.         *)
(***************************************************************************)
NoWriter ==
    [st |-> "None", start |-> 0, header |-> <<>>, payload |-> <<>>, holds |-> FALSE]

\* WriteFrame::new(send, frame)
WriteFrame_new(ty, payload) ==
    [st |-> "Header", start |-> 0, header |-> EncodeHeader(ty, Len(payload)),
     payload |-> payload, holds |-> TRUE]

\* what a write call on the transport may return for n offered bytes: Pending,
\* an error, or the number of bytes accepted
Accepts(n) == IF n = 0 THEN {0} ELSE 1..n

WriteOutcomes(n) ==
    {[kind |-> "Pending", n |-> 0], [kind |-> "Err", n |-> 0]}
    \cup {[kind |-> "Ok", n |-> k] : k \in Accepts(n)}

\* the bytes the writer offers to the transport in its next write call
Offered(w) ==
    IF w.st = "Header" THEN SubSeq(w.header, w.start + 1, Len(w.header))
    ELSE w.payload

Step(w, accepted, res) == [w |-> w, accepted |-> accepted, res |-> res]

\* WriteHeaderArm that does not store the offset after a partial write
WriteHeaderArmRestart(w, o) ==
    IF ~w.holds THEN Step(w, <<>>, "Panic")
    ELSE IF o.kind = "Pending" THEN Step(w, <<>>, "Pending")
    ELSE IF o.kind = "Err" THEN Step(w, <<>>, "Err")
    ELSE LET start == w.start + o.n
         IN  IF start < Len(w.header)
             THEN Step(w, Take(Offered(w), o.n), "Continue")
             ELSE Step([w EXCEPT !.st = "Payload", !.start = start],
                       Take(Offered(w), o.n), "Continue")

\* WriteHeaderArm that never leaves Header for Payload
WriteHeaderArmStuck(w, o) ==
    IF ~w.holds THEN Step(w, <<>>, "Panic")
    ELSE IF o.kind = "Pending" THEN Step(w, <<>>, "Pending")
    ELSE IF o.kind = "Err" THEN Step(w, <<>>, "Err")
    ELSE Step([w EXCEPT !.start = w.start + o.n], Take(Offered(w), o.n), "Continue")

\* the Header arm of WriteFrame::poll: one write of header[start..header_len]
WriteHeaderArm(w, o) ==
    IF ~w.holds THEN Step(w, <<>>, "Panic")
    ELSE IF o.kind = "Pending" THEN Step(w, <<>>, "Pending")
    ELSE IF o.kind = "Err" THEN Step(w, <<>>, "Err")
    ELSE LET start == w.start + o.n
         IN  IF start < Len(w.header)
             THEN Step([w EXCEPT !.start = start], Take(Offered(w), o.n), "Continue")
             ELSE Step([w EXCEPT !.st = "Payload", !.start = start],
                       Take(Offered(w), o.n), "Continue")

\* WritePayloadArm without p.advance(wrote): a partial write is offered again
WritePayloadArmNoAdvance(w, o) ==
    IF ~w.holds THEN Step(w, <<>>, "Panic")
    ELSE IF o.kind = "Err" THEN Step([w EXCEPT !.holds = FALSE], <<>>, "Err")
    ELSE IF o.kind = "Pending" THEN Step(w, <<>>, "Pending")
    ELSE IF o.n < Len(w.payload)
         THEN Step(w, Take(w.payload, o.n), "Continue")
         ELSE Step([w EXCEPT !.payload = <<>>, !.st = "Finished", !.holds = FALSE],
                   Take(w.payload, o.n), "Ready")

\* the Payload arm of WriteFrame::poll: one write of the payload left
WritePayloadArm(w, o) ==
    IF ~w.holds THEN Step(w, <<>>, "Panic")
    ELSE IF o.kind = "Err" THEN Step([w EXCEPT !.holds = FALSE], <<>>, "Err")
    ELSE IF o.kind = "Pending" THEN Step(w, <<>>, "Pending")
    ELSE LET rest == Advance(w.payload, o.n)
         IN  IF rest # <<>>
             THEN Step([w EXCEPT !.payload = rest], Take(w.payload, o.n), "Continue")
             ELSE Step([w EXCEPT !.payload = rest, !.st = "Finished", !.holds = FALSE],
                       Take(w.payload, o.n), "Ready")

\* WriteFrame_poll that answers Pending when polled after it finished
WriteFrame_pollLenient(w, o) ==
    IF w.st = "Header" THEN WriteHeaderArm(w, o)
    ELSE IF w.st = "Payload" THEN WritePayloadArm(w, o)
    ELSE Step(w, <<>>, "Pending")

\* one iteration of the loop of WriteFrame::poll
WriteFrame_poll(w, o) ==
    IF w.st = "Header" THEN WriteHeaderArm(w, o)
    ELSE IF w.st = "Payload" THEN WritePayloadArm(w, o)
    ELSE Step(w, <<>>, "Panic")

(***************************************************************************)
(* SendData: the send driver, and the send stream it writes to.            *)
(***************************************************************************)


\* the j-th chunk of the body: n distinct bytes
ChunkOf(j, n) == [i \in 1..n |-> 32 * j + i]

Bodies ==
    UNION {{b \in [1..n -> UNION {{ChunkOf(j, k) : k \in 0..MaxChunk} : j \in 1..n}] :
                \A j \in 1..n : b[j] \in {ChunkOf(j, k) : k \in 0..MaxChunk}} :
           n \in 0..MaxChunks}

InitSend ==
    /\ IdleDecode
    /\ IdleRecv
    /\ IdleStop
    /\ IdleConn
    /\ sstate = "Initial"
    /\ headers = TRUE
    /\ send = TRUE
    /\ writer = NoWriter
    /\ chunks \in Bodies
    /\ body = chunks
    /\ block \in {[i \in 1..n |-> 8 + i] : n \in 1..MaxBlock}
    /\ trailers \in {None, Some(<<9>>)}
    /\ finish \in BOOLEAN
    /\ sent = <<>>
    /\ fin = None
    /\ resets = <<>>
    /\ dropped = FALSE
    /\ notified = 0
    /\ running = FALSE
    /\ ret = "None"
    /\ panicked = FALSE
    /\ cancels = 0
    /\ errored = FALSE
    /\ completions = 0

\* poll may take a step: it has not panicked
CanPoll(st) == sstate = st /\ ~panicked

\* how a poll ends
Return(r) ==
    /\ ret' = r
    /\ running' = FALSE
    /\ errored' = (errored \/ r \in {"ErrEncode", "ErrWrite", "ErrBody", "ErrFinish"})
    /\ UNCHANGED panicked

Continue == running' = TRUE /\ UNCHANGED <<ret, errored, panicked>>

Panic ==
    /\ panicked' = TRUE
    /\ ret' = "Panic"
    /\ running' = FALSE
    /\ UNCHANGED errored

\* the Initial arm: SendHeaders::new encodes the headers under the connection
\* lock and makes the writer of the HEADERS frame
PollInitial ==
    /\ CanPoll("Initial")
    /\ IF ~headers \/ ~send
       THEN /\ Panic
            /\ UNCHANGED <<sstate, headers, send, writer, dropped>>
       ELSE /\ headers' = FALSE
            /\ send' = FALSE
            /\ \/ /\ sstate' = "Headers"
                  /\ writer' = WriteFrame_new(TypeHEADERS, block)
                  /\ Continue
                  /\ UNCHANGED dropped
               \/ /\ Return("ErrEncode")
                  /\ dropped' = TRUE
                  /\ UNCHANGED <<sstate, writer>>
    /\ UNCHANGED <<body, chunks, block, trailers, finish, sent, fin, resets,
                   notified, cancels, completions>>
    /\ UNCHANGED <<decVars, recvVars, stopVars, connVars>>

\* SendData.send when the writer is done: *me.send = Some(stream returned)
SendAfterWrite == TRUE

\* the arms Headers, Write and Trailers: one iteration of the writer's loop;
\* when the writer is done the stream returns to the driver
PollWriter(st, next) ==
    /\ CanPoll(st)
    /\ \E o \in WriteOutcomes(Len(Offered(writer))) :
          LET r == WriteFrame_poll(writer, o)
          IN  /\ sent' = sent \o r.accepted
              /\ CASE r.res = "Continue" ->
                        /\ writer' = r.w
                        /\ Continue
                        /\ UNCHANGED <<sstate, send, dropped>>
                   [] r.res = "Pending" ->
                        /\ writer' = r.w
                        /\ Return("Pending")
                        /\ UNCHANGED <<sstate, send, dropped>>
                   [] r.res = "Err" ->
                        /\ writer' = r.w
                        /\ Return("ErrWrite")
                        /\ dropped' = (dropped \/ ~r.w.holds)
                        /\ UNCHANGED <<sstate, send>>
                   [] r.res = "Ready" ->
                        /\ writer' = NoWriter
                        /\ send' = SendAfterWrite
                        /\ sstate' = next
                        /\ Continue
                        /\ UNCHANGED dropped
                   [] r.res = "Panic" ->
                        /\ Panic
                        /\ UNCHANGED <<sstate, send, writer, dropped>>
    /\ UNCHANGED <<headers, body, chunks, block, trailers, finish, fin, resets,
                   notified, cancels, completions>>
    /\ UNCHANGED <<decVars, recvVars, stopVars, connVars>>

PollHeaders == PollWriter("Headers", "PollBody")

PollWrite == PollWriter("Write", "PollBody")

PollTrailersWrite == PollWriter("Trailers", "Closing")

\* the PollBody arm: poll_data is Pending, yields a chunk, fails, or is exhausted
PollBody ==
    /\ CanPoll("PollBody")
    /\ \/ /\ Return("Pending")
          /\ UNCHANGED <<sstate, send, writer, body>>
       \/ /\ body = <<>>
          /\ sstate' = "PollTrailers"
          /\ Continue
          /\ UNCHANGED <<send, writer, body>>
       \/ /\ Return("ErrBody")
          /\ UNCHANGED <<sstate, send, writer, body>>
       \/ /\ body # <<>>
          /\ body' = Tail(body)
          /\ IF ~send
             THEN /\ Panic
                  /\ UNCHANGED <<sstate, send, writer>>
             ELSE /\ send' = FALSE
                  /\ writer' = WriteFrame_new(TypeDATA, Head(body))
                  /\ sstate' = "Write"
                  /\ Continue
    /\ UNCHANGED <<headers, chunks, block, trailers, finish, sent, fin, resets,
                   dropped, notified, cancels, completions>>
    /\ UNCHANGED <<decVars, recvVars, stopVars, connVars>>

\* the PollTrailers arm: poll_trailers is Pending, fails (todo!() panics),
\* yields no trailers, or yields trailers that SendHeaders::new encodes
PollTrailers ==
    /\ CanPoll("PollTrailers")
    /\ \/ /\ Return("Pending")
          /\ UNCHANGED <<sstate, send, writer, dropped>>
       \/ /\ Panic
          /\ UNCHANGED <<sstate, send, writer, dropped>>
       \/ /\ trailers = None
          /\ sstate' = "Closing"
          /\ Continue
          /\ UNCHANGED <<send, writer, dropped>>
       \/ /\ trailers # None
          /\ IF ~send
             THEN /\ Panic
                  /\ UNCHANGED <<sstate, send, writer, dropped>>
             ELSE /\ send' = FALSE
                  /\ \/ /\ sstate' = "Trailers"
                        /\ writer' = WriteFrame_new(TypeHEADERS, trailers[1])
                        /\ Continue
                        /\ UNCHANGED dropped
                     \/ /\ Return("ErrEncode")
                        /\ dropped' = TRUE
                        /\ UNCHANGED <<sstate, writer>>
    /\ UNCHANGED <<headers, body, chunks, block, trailers, finish, sent, fin, resets,
                   notified, cancels, completions>>
    /\ UNCHANGED <<decVars, recvVars, stopVars, connVars>>

\* the first poll_finish call issues the finish, after the bytes accepted so far
FinAfter(f, n) == IF f = None THEN Some(n) ELSE f

\* the connection is told request_finished(stream_id) if the finish flag is set
NotifiedAfter(n) == IF finish THEN n + 1 ELSE n

\* the Closing arm: poll_finish issues the finish and is Pending, fails, or
\* succeeds; on success the connection is notified and poll returns
PollClosing ==
    /\ CanPoll("Closing")
    /\ completions < MaxCompletions
    /\ IF ~send
       THEN /\ Panic
            /\ UNCHANGED <<fin, notified, completions>>
       ELSE /\ fin' = FinAfter(fin, Len(sent))
            /\ \/ /\ Return("Pending")
                  /\ UNCHANGED <<notified, completions>>
               \/ /\ Return("ErrFinish")
                  /\ UNCHANGED <<notified, completions>>
               \/ /\ notified' = NotifiedAfter(notified)
                  /\ completions' = completions + 1
                  /\ Return("Ok")
    /\ UNCHANGED <<sstate, headers, send, writer, body, chunks, block, trailers,
                   finish, sent, resets, dropped, cancels>>
    /\ UNCHANGED <<decVars, recvVars, stopVars, connVars>>

\* the Finished arm
PollFinishedArm ==
    /\ CanPoll("Finished")
    /\ Return("Ok")
    /\ UNCHANGED <<sstate, headers, send, writer, body, chunks, block, trailers,
                   finish, sent, fin, resets, dropped, notified, cancels,
                   completions>>
    /\ UNCHANGED <<decVars, recvVars, stopVars, connVars>>

\* the state cancel matches on: it is read after self.state was set to Finished
CancelMatched(st) == "Finished"

\* the resets cancel issues, by the state matched: through the writer of Write
\* or Trailers if it holds the stream, else on the stream the driver holds
CancelResets(st, w, held) ==
    IF st \in {"Write", "Trailers"}
    THEN IF w.holds THEN <<"REQUEST_CANCELLED">> ELSE <<>>
    ELSE IF held THEN <<"REQUEST_CANCELLED">> ELSE <<>>

\* SendAfterCancel resetting the stream in place, without self.send.take()
SendAfterCancelKept(st, held) == held

\* SendData.send after cancel: the arm that resets the driver's stream takes it
SendAfterCancel(st, held) == IF st \in {"Write", "Trailers"} THEN held ELSE FALSE

\* SendData::cancel, between two polls
Cancel ==
    /\ ~running
    /\ ~panicked
    /\ cancels < MaxCancels
    /\ cancels' = cancels + 1
    /\ LET st == CancelMatched(sstate)
           w == IF st = sstate THEN writer ELSE NoWriter
       IN  /\ resets' = resets \o CancelResets(st, w, send)
           /\ send' = SendAfterCancel(st, send)
           /\ dropped' = (dropped \/ (st # sstate /\ writer.holds))
    /\ sstate' = "Finished"
    /\ writer' = NoWriter
    /\ UNCHANGED <<headers, body, chunks, block, trailers, finish, sent, fin,
                   notified, running, ret, panicked, errored, completions>>
    /\ UNCHANGED <<decVars, recvVars, stopVars, connVars>>

NextSend ==
    \/ PollInitial
    \/ PollHeaders
    \/ PollBody
    \/ PollWrite
    \/ PollTrailers
    \/ PollTrailersWrite
    \/ PollClosing
    \/ PollFinishedArm
    \/ Cancel

SpecSend == InitSend /\ [][NextSend]_vars

(***************************************************************************)
(* The send driver under a fair environment: the executor goes on polling, *)
(* the transport goes on accepting bytes and acknowledges the finish, the  *)
(* body goes on yielding.  A poll step that advances is one that has bytes *)
(* accepted, changes the state of the driver or completes, with no error   *)
(* and no panic; such a step, while it stays possible, is taken.           *)
(***************************************************************************)
PollStep ==
    \/ PollInitial
    \/ PollHeaders
    \/ PollBody
    \/ PollWrite
    \/ PollTrailers
    \/ PollTrailersWrite
    \/ PollClosing
    \/ PollFinishedArm

Advances == sent' # sent \/ sstate' # sstate \/ completions' # completions

GoodPoll == PollStep /\ Advances /\ ~errored' /\ ~panicked'

SpecSendLive == InitSend /\ [][NextSend]_vars /\ WF_vars(GoodPoll)

(***************************************************************************)
(* One WriteFrame on its own, polled and reset by its owner.  It uses the  *)
(* state of the send side: writer is the WriteFrame, send tells that poll  *)
(* has returned the stream to the owner, block or chunks hold the payload  *)
(* the frame was made of (a HEADERS block or one DATA chunk).              *)
(***************************************************************************)
\* the codes the owner resets with
ResetCodes == {"REQUEST_CANCELLED", "INTERNAL_ERROR"}

\* WriteFrame::new(send, frame) for a frame of the given type and payload
NewWriter(ty, payload) ==
    /\ sstate = "Writer"
    /\ headers = FALSE
    /\ send = FALSE
    /\ writer = WriteFrame_new(ty, payload)
    /\ block = IF ty = TypeHEADERS THEN payload ELSE <<>>
    /\ chunks = IF ty = TypeDATA THEN <<payload>> ELSE <<>>
    /\ body = <<>>
    /\ trailers = None
    /\ finish = FALSE
    /\ sent = <<>>
    /\ fin = None
    /\ resets = <<>>
    /\ dropped = FALSE
    /\ notified = 0
    /\ running = FALSE
    /\ ret = "None"
    /\ panicked = FALSE
    /\ cancels = 0
    /\ errored = FALSE
    /\ completions = 0

NewWriters ==
    \E ty \in {TypeDATA, TypeHEADERS} :
       \E k \in 0..MaxChunk : NewWriter(ty, ChunkOf(1, k))

InitWrite ==
    /\ IdleDecode
    /\ IdleRecv
    /\ IdleStop
    /\ IdleConn
    /\ NewWriters

\* one iteration of the loop of WriteFrame::poll, on a transport that is
\* Pending, fails, or accepts some of the bytes offered
WritePoll ==
    /\ sstate = "Writer"
    /\ ~panicked
    /\ \E o \in WriteOutcomes(Len(Offered(writer))) :
          LET r == WriteFrame_poll(writer, o)
          IN  /\ sent' = sent \o r.accepted
              /\ CASE r.res = "Continue" ->
                        /\ writer' = r.w
                        /\ Continue
                        /\ UNCHANGED <<send, dropped>>
                   [] r.res = "Pending" ->
                        /\ writer' = r.w
                        /\ Return("Pending")
                        /\ UNCHANGED <<send, dropped>>
                   [] r.res = "Err" ->
                        /\ writer' = r.w
                        /\ Return("ErrWrite")
                        /\ dropped' = (dropped \/ ~r.w.holds)
                        /\ UNCHANGED send
                   [] r.res = "Ready" ->
                        /\ writer' = r.w
                        /\ send' = TRUE
                        /\ Return("Ok")
                        /\ UNCHANGED dropped
                   [] r.res = "Panic" ->
                        /\ Panic
                        /\ UNCHANGED <<send, writer, dropped>>
    /\ UNCHANGED <<sstate, headers, body, chunks, block, trailers, finish, fin,
                   resets, notified, cancels, completions>>
    /\ UNCHANGED <<decVars, recvVars, stopVars, connVars>>

\* WriteFrame.send after reset with the reset consuming the stream
HoldsAfterResetTaken(w) == FALSE

\* WriteFrame.send after reset: the stream is reset in place
HoldsAfterReset(w) == w.holds

\* WriteFrame::reset(code), between two polls
WriteReset ==
    /\ sstate = "Writer"
    /\ ~running
    /\ ~panicked
    /\ cancels < MaxCancels
    /\ cancels' = cancels + 1
    /\ \E code \in ResetCodes :
          resets' = IF writer.holds THEN Append(resets, code) ELSE resets
    /\ writer' = [writer EXCEPT !.holds = HoldsAfterReset(writer)]
    /\ UNCHANGED <<sstate, headers, send, body, chunks, block, trailers, finish,
                   sent, fin, dropped, notified, running, ret, panicked, errored,
                   completions>>
    /\ UNCHANGED <<decVars, recvVars, stopVars, connVars>>

NextWrite ==
    \/ WritePoll
    \/ WriteReset

SpecWrite == InitWrite /\ [][NextWrite]_vars

(***************************************************************************)
(* SendData::poll_stopped: the query for the peer's STOP_SENDING.  The     *)
(* peer's signal is None, or Some(code) once STOP_SENDING has arrived.     *)
(***************************************************************************)
PeerStops == {None, Some(268)}

StopPending == [res |-> "Pending", reason |-> None]

StopReady(reason) == [res |-> "Ready", reason |-> reason]

\* SendStream::poll_stopped: Pending until the peer stops the stream, then
\* the code the peer gave
Stream_poll_stopped(p) == IF p = None THEN StopPending ELSE StopReady(p)

\* WriteFrame::poll_stopped
WriteFrame_poll_stopped(w, p) ==
    IF w.holds THEN Stream_poll_stopped(p) ELSE StopPending

\* SendData::poll_stopped: the writers of Write and Trailers are asked; in
\* every other state the stream the driver holds is, and Ready(None) is
\* returned if it holds none
SendData_poll_stopped(st, w, held, p) ==
    IF st \in {"Write", "Trailers"} THEN WriteFrame_poll_stopped(w, p)
    ELSE IF ~held THEN StopReady(None)
    ELSE Stream_poll_stopped(p)

\* a call of poll_stopped between two polls
PollStopped ==
    /\ ~running
    /\ ~panicked
    /\ \E p \in PeerStops :
          LET r == SendData_poll_stopped(sstate, writer, send, p)
          IN  stopped' = [called |-> TRUE, peer |-> p, res |-> r.res,
                          reason |-> r.reason]
    /\ UNCHANGED <<decVars, sendVars, recvVars, connVars>>

NextStopped ==
    \/ NextSend
    \/ PollStopped

SpecStopped == InitSend /\ [][NextStopped]_vars

(***************************************************************************)
(* RecvData: the receive driver over its frame reader (FrameStream).  The  *)
(* reader yields items: a frame [tag "Frame", kind] or a codec failure     *)
(* [tag "Err", kind]; after the last item the stream has ended.            *)
(***************************************************************************)
FrameItem(k) == [tag |-> "Frame", kind |-> k]
ErrItem(k) == [tag |-> "Err", kind |-> k]

Items ==
    {FrameItem(k) : k \in {"Reserved", "Headers", "Data", "Settings"}}
    \cup {ErrItem(k) : k \in {"Io", "Settings", "UnsupportedFrame", "Malformed"}}

\* Error::code with the SETTINGS failure given the code of the other failures
Error_codeFlat(kind) ==
    IF kind = "Io" THEN "GENERAL_PROTOCOL_ERROR"
    ELSE IF kind = "UnsupportedFrame" THEN "FRAME_UNEXPECTED"
    ELSE "FRAME_ERROR"

\* Error::code: the code the codec assigns to a failure
Error_code(kind) ==
    IF kind = "Io" THEN "GENERAL_PROTOCOL_ERROR"
    ELSE IF kind = "Settings" THEN "SETTINGS_ERROR"
    ELSE IF kind = "UnsupportedFrame" THEN "FRAME_UNEXPECTED"
    ELSE "FRAME_ERROR"

\* UnexpectedStop without the reset of the receive stream
UnexpectedStopMissing == <<>>

\* the stop-sending issued when the first frame is neither Reserved nor Headers
UnexpectedStop == <<"FRAME_UNEXPECTED">>

\* RecvAfterDecode handing out the reader while keeping it
RecvAfterDecodeKept == TRUE

\* RecvData.recv after the decode succeeded: self.recv.take()
RecvAfterDecode == FALSE

\* StreamEnded taking the end of the stream for a clean completion
StreamEndedQuietly == "Ok"

\* what poll returns when the frame reader reports the end of the stream
StreamEnded == "ErrPeer"

\* RecvData::new over a frame reader that yields a sequence of the given items
RecvData_new(items) ==
    /\ rstate = "Receiving"
    /\ recv = TRUE
    /\ rxAll \in UNION {[1..n -> items] : n \in 0..MaxRx}
    /\ rpos = 0
    /\ decoding = None
    /\ submitted = None
    /\ stops = <<>>
    /\ result = None
    /\ rrunning = FALSE
    /\ rret = "None"
    /\ rpanicked = FALSE
    /\ rresets = 0

InitRecv ==
    /\ IdleDecode
    /\ IdleSend
    /\ IdleStop
    /\ IdleConn
    /\ RecvData_new(Items)

RecvReturn(r) == rret' = r /\ rrunning' = FALSE /\ UNCHANGED rpanicked

RecvContinue == rrunning' = TRUE /\ UNCHANGED <<rret, rpanicked>>

RecvPanic == rpanicked' = TRUE /\ rret' = "Panic" /\ rrunning' = FALSE

\* the Receiving arm: poll_next on the frame reader is Pending, yields the
\* next item, or reports the end of the stream
RecvPollReceiving ==
    /\ rstate = "Receiving"
    /\ ~rpanicked
    /\ IF ~recv
       THEN /\ RecvPanic
            /\ UNCHANGED <<rstate, rpos, decoding, stops>>
       ELSE \/ /\ RecvReturn("Pending")
               /\ UNCHANGED <<rstate, rpos, decoding, stops>>
            \/ /\ rpos = Len(rxAll)
               /\ RecvReturn(StreamEnded)
               /\ UNCHANGED <<rstate, rpos, decoding, stops>>
            \/ /\ rpos < Len(rxAll)
               /\ rpos' = rpos + 1
               /\ LET item == rxAll[rpos + 1]
                  IN  CASE item.tag = "Err" ->
                             /\ stops' = stops \o <<Error_code(item.kind)>>
                             /\ RecvReturn("ErrFrame")
                             /\ UNCHANGED <<rstate, decoding>>
                        [] item.tag = "Frame" /\ item.kind = "Reserved" ->
                             /\ RecvContinue
                             /\ UNCHANGED <<rstate, decoding, stops>>
                        [] item.tag = "Frame" /\ item.kind = "Headers" ->
                             /\ rstate' = "Decoding"
                             /\ decoding' = Some(rpos + 1)
                             /\ RecvContinue
                             /\ UNCHANGED stops
                        [] OTHER ->
                             /\ stops' = stops \o UnexpectedStop
                             /\ RecvReturn("ErrPeer")
                             /\ UNCHANGED <<rstate, decoding>>
    /\ UNCHANGED <<recv, rxAll, submitted, result, rresets>>
    /\ UNCHANGED <<decVars, sendVars, stopVars, connVars>>

\* BodyReaderAt with the body reader given a frame reader that starts over
BodyReaderRewound(pos) == 0

\* the position of the frame reader inside the RecvBody returned: the reader
\* the driver held is moved into it as it is
BodyReaderAt(pos) == pos

\* the Decoding arm: DecodeHeaders::poll gives the frame to poll_decode under
\* the connection lock; the decode is Pending, fails, or yields the header
RecvPollDecoding ==
    /\ rstate = "Decoding"
    /\ ~rpanicked
    /\ submitted' = decoding
    /\ \/ /\ RecvReturn("Pending")
          /\ UNCHANGED <<rstate, recv, result>>
       \/ /\ RecvReturn("ErrDecode")
          /\ UNCHANGED <<rstate, recv, result>>
       \/ IF ~recv
          THEN /\ RecvPanic
               /\ UNCHANGED <<rstate, recv, result>>
          ELSE /\ result' = Some([header |-> decoding[1], body |-> BodyReaderAt(rpos)])
               /\ recv' = RecvAfterDecode
               /\ rstate' = "Finished"
               /\ RecvReturn("Ok")
    /\ UNCHANGED <<rxAll, rpos, decoding, stops, rresets>>
    /\ UNCHANGED <<decVars, sendVars, stopVars, connVars>>

\* the Finished arm: panic!("polled after finished")
RecvPollFinished ==
    /\ rstate = "Finished"
    /\ ~rpanicked
    /\ RecvPanic
    /\ UNCHANGED <<rstate, recv, rxAll, rpos, decoding, submitted, stops, result,
                   rresets>>
    /\ UNCHANGED <<decVars, sendVars, stopVars, connVars>>

\* RecvData::reset(code), between two polls
RecvReset ==
    /\ ~rrunning
    /\ ~rpanicked
    /\ rresets < MaxResets
    /\ rresets' = rresets + 1
    /\ stops' = IF recv THEN Append(stops, "REQUEST_CANCELLED") ELSE stops
    /\ UNCHANGED <<rstate, recv, rxAll, rpos, decoding, submitted, result, rrunning,
                   rret, rpanicked>>
    /\ UNCHANGED <<decVars, sendVars, stopVars, connVars>>

NextRecv ==
    \/ RecvPollReceiving
    \/ RecvPollDecoding
    \/ RecvPollFinished
    \/ RecvReset

SpecRecv == InitRecv /\ [][NextRecv]_vars

(***************************************************************************)
(* A WriteFrame and a RecvData side by side, as the two halves of one      *)
(* request, both only polled by their owner; the frame reader yields       *)
(* Reserved and HEADERS frames.                                            *)
(***************************************************************************)
InitHalves ==
    /\ IdleDecode
    /\ IdleStop
    /\ IdleConn
    /\ NewWriters
    /\ RecvData_new({FrameItem("Reserved"), FrameItem("Headers")})

NextHalves ==
    \/ WritePoll
    \/ RecvPollReceiving
    \/ RecvPollDecoding
    \/ RecvPollFinished

SpecHalves == InitHalves /\ [][NextHalves]_vars

(***************************************************************************)
(* The mutex of the connection (ConnectionRef.h3) under several drivers.   *)
(* A driver is [kind, finish, at, mode]: a send or a receive driver, its   *)
(* finish flag, its state, and where it runs: Suspended (not being polled: *)
(* not yet polled, or its last poll returned Pending), Running (inside     *)
(* poll, outside the critical section), Locked (inside poll, holding the   *)
(* mutex), Returned (poll returned Ready), Deadlocked (it locked the mutex *)
(* while holding it).  Polls of different drivers run in parallel.         *)
(***************************************************************************)
NewDrivers ==
    {[kind |-> "Send", finish |-> f, at |-> "Initial", mode |-> "Suspended"] :
        f \in BOOLEAN}
    \cup {[kind |-> "Recv", finish |-> FALSE, at |-> "Receiving", mode |-> "Suspended"]}

InitLock ==
    /\ IdleDecode
    /\ IdleSend
    /\ IdleRecv
    /\ IdleStop
    /\ lock = None
    /\ drv \in UNION {[1..n -> NewDrivers] : n \in 1..MaxDrivers}

\* the states in which the next thing poll does is to lock the mutex:
\* SendHeaders::new for the headers and for the trailers, request_finished
\* after the finish, DecodeHeaders::poll
LocksNext(d) ==
    \/ d.kind = "Send" /\ d.at \in {"Initial", "EncodeTrailers", "Notify"}
    \/ d.kind = "Recv" /\ d.at = "Decoding"

Moved(i, at, mode) == drv' = [drv EXCEPT ![i].at = at, ![i].mode = mode]

\* the executor polls a suspended driver
LockPoll(i) ==
    /\ drv[i].mode = "Suspended"
    /\ Moved(i, drv[i].at, "Running")
    /\ UNCHANGED lock
    /\ UNCHANGED <<decVars, sendVars, recvVars, stopVars>>

\* an iteration of SendData::poll that does not take the mutex
LockSendStep(i) ==
    /\ drv[i].kind = "Send"
    /\ drv[i].mode = "Running"
    /\ LET at == drv[i].at
       IN  \/ /\ at \in {"Headers", "PollBody", "Write", "PollTrailers", "Trailers",
                         "Closing"}
              /\ Moved(i, at, "Suspended")
           \/ /\ at \in {"Headers", "PollBody", "Write", "Trailers", "Closing"}
              /\ Moved(i, at, "Returned")
           \/ /\ at \in {"Headers", "Write"}
              /\ Moved(i, "PollBody", "Running")
           \/ /\ at = "PollBody"
              /\ \E next \in {"Write", "PollTrailers"} : Moved(i, next, "Running")
           \/ /\ at = "PollTrailers"
              /\ \E next \in {"EncodeTrailers", "Closing"} : Moved(i, next, "Running")
           \/ /\ at = "Trailers"
              /\ Moved(i, "Closing", "Running")
           \/ /\ at = "Closing"
              /\ IF drv[i].finish
                 THEN Moved(i, "Notify", "Running")
                 ELSE Moved(i, "Closing", "Returned")
    /\ UNCHANGED lock
    /\ UNCHANGED <<decVars, sendVars, recvVars, stopVars>>

\* an iteration of RecvData::poll in Receiving
LockRecvStep(i) ==
    /\ drv[i].kind = "Recv"
    /\ drv[i].mode = "Running"
    /\ drv[i].at = "Receiving"
    /\ \/ Moved(i, "Receiving", "Suspended")
       \/ Moved(i, "Receiving", "Running")
       \/ Moved(i, "Receiving", "Returned")
       \/ Moved(i, "Decoding", "Running")
    /\ UNCHANGED lock
    /\ UNCHANGED <<decVars, sendVars, recvVars, stopVars>>

\* conn.h3.lock(): the thread waits while another driver holds the mutex, and
\* never returns if the driver itself holds it
Acquire(i) ==
    /\ drv[i].mode = "Running"
    /\ LocksNext(drv[i])
    /\ \/ /\ lock = None
          /\ lock' = Some(i)
          /\ Moved(i, drv[i].at, "Locked")
       \/ /\ lock = Some(i)
          /\ Moved(i, drv[i].at, "Deadlocked")
          /\ UNCHANGED lock
    /\ UNCHANGED <<decVars, sendVars, recvVars, stopVars>>

\* what the operation under the mutex may give, by the state of the driver
LockedOutcomes(at) ==
    IF at = "Decoding" THEN {"Pending", "Err", "Ok"}
    ELSE IF at = "Notify" THEN {"Ok"}
    ELSE {"Err", "Ok"}

\* where the driver is after the operation under the mutex
AfterLocked(at, outcome) ==
    IF outcome = "Pending" THEN [at |-> at, mode |-> "Suspended"]
    ELSE IF outcome = "Err" THEN [at |-> at, mode |-> "Returned"]
    ELSE IF at = "Initial" THEN [at |-> "Headers", mode |-> "Running"]
    ELSE IF at = "EncodeTrailers" THEN [at |-> "Trailers", mode |-> "Running"]
    ELSE IF at = "Notify" THEN [at |-> "Closing", mode |-> "Returned"]
    ELSE [at |-> "Finished", mode |-> "Returned"]

\* LockAfterRelease with the guard living on in the driver while it waits
LockAfterReleaseKept(i, outcome) == IF outcome = "Pending" THEN Some(i) ELSE None

\* the mutex after the operation: the guard is a local of the function or
\* block that locked, and is dropped on every way out of it
LockAfterRelease(i, outcome) == None

\* the operation under the mutex ends and the guard goes out of scope
Release(i) ==
    /\ drv[i].mode = "Locked"
    /\ \E outcome \in LockedOutcomes(drv[i].at) :
          LET after == AfterLocked(drv[i].at, outcome)
          IN  /\ Moved(i, after.at, after.mode)
              /\ lock' = LockAfterRelease(i, outcome)
    /\ UNCHANGED <<decVars, sendVars, recvVars, stopVars>>

NextLock ==
    \/ \E i \in DOMAIN drv : LockPoll(i)
    \/ \E i \in DOMAIN drv : LockSendStep(i)
    \/ \E i \in DOMAIN drv : LockRecvStep(i)
    \/ \E i \in DOMAIN drv : Acquire(i)
    \/ \E i \in DOMAIN drv : Release(i)

SpecLock == InitLock /\ [][NextLock]_vars

(***************************************************************************)
(* Properties of the decoder.                                              *)
(***************************************************************************)
\* the encoded length of the first frame, and of its frame header
Len1 == Len(EncodeFrame(frames[1]))
Hdr1 == Len(EncodeHeader(frames[1].ty, Len(frames[1].payload)))

\* the bytes the decoder has taken out of the buffer so far
Consumed == fed - Len(src)

RECURSIVE ConcatPayload(_)
ConcatPayload(fs) ==
    IF fs = <<>> THEN <<>> ELSE Head(fs).payload \o ConcatPayload(Tail(fs))

\* fs with every run of consecutive Data chunks joined into one Data frame
RECURSIVE Merge(_)
Merge(fs) ==
    IF Len(fs) < 2 THEN fs
    ELSE IF fs[1].kind = "Data" /\ fs[2].kind = "Data"
    THEN Merge(<<DataFrame(fs[1].payload \o fs[2].payload)>> \o Advance(fs, 2))
    ELSE <<fs[1]>> \o Merge(Tail(fs))

\* the first feed gave a fresh decoder the header of a DATA frame of N bytes
\* and the first k bytes of its payload, 0 < k < N
SplitData ==
    /\ ops # <<>>
    /\ frames[1].ty = TypeDATA
    /\ ops[1] - Hdr1 > 0
    /\ ops[1] - Hdr1 < Len(frames[1].payload)

\* C4: a DATA frame of N bytes whose first part ends at payload offset k,
\* 0 < k < N: the first decode yields a Data chunk of at most k bytes, the
\* chunks yielded for the frame are its payload in order, they sum to N, and
\* once the frame is consumed the decoder holds no PartialData and no
\* minimum, so that what follows decodes as the frames that follow.
C4_PartialDataStreaming ==
    SplitData =>
        /\ (Len(ops) = 2 /\ ops[2] = 0) =>
              /\ last.res # None
              /\ last.res[1].kind = "Data"
              /\ Len(last.res[1].payload) <= ops[1] - Hdr1
              /\ last.res[1].payload = Take(frames[1].payload, Len(last.res[1].payload))
        /\ (Consumed > 0 /\ Consumed <= Len1) =>
              /\ \A i \in 1..Len(out) : out[i].kind = "Data"
              /\ ConcatPayload(out) = Take(frames[1].payload, Consumed - Hdr1)
        /\ (Consumed > 0 /\ Consumed < Len1) =>
              partial = Some(Len1 - Consumed)
        /\ (Consumed = Len1 /\ last.res # None) =>
              (partial = None /\ expected = None)
        /\ (fed = Len(Wire) /\ ~readable) => Merge(out) = Merge(FramesOf(frames))

C4_Witness ==
    /\ SplitData
    /\ Consumed = Len1
    /\ Len(out) = 2
    /\ ConcatPayload(out) = frames[1].payload
    /\ partial = None
    /\ Len(frames) = 2

\* the first two operations were a feed of a strict prefix of the first
\* frame and one decode
AfterPrefix ==
    /\ Len(ops) >= 2
    /\ ops[1] < Len1
    /\ ops[2] = 0

\* ... and the next two a feed that completes the first frame and one decode
AfterCompletion ==
    /\ AfterPrefix
    /\ Len(ops) = 4
    /\ ops[3] > 0
    /\ ops[1] + ops[3] >= Len1
    /\ ops[4] = 0

PrefixBehaviour ==
    /\ (AfterPrefix /\ Len(ops) = 2) =>
          /\ last.res = None
          /\ last.err = "None"
          /\ last.consumed = 0
          /\ src = Take(Wire, ops[1])
    /\ (AfterCompletion /\ fed = ops[1] + ops[3] /\ sinceFeed = 1) =>
          /\ last.res = Some(FrameOf(frames[1]))
          /\ last.consumed = Len1

\* C5 as stated: for a frame of any kind, a strict prefix of its encoding
\* given to a fresh decoder yields need-more with nothing consumed, and the
\* decode after the missing bytes arrive yields the whole frame.
C5_PrefixAnyKind == PrefixBehaviour

\* C5 amended: the same for every frame that is not a DATA frame, and for a
\* DATA frame when the prefix ends inside its frame header.
C5_PrefixCompleteness ==
    (frames[1].ty # TypeDATA \/ (ops # <<>> /\ ops[1] < Hdr1)) => PrefixBehaviour

C5_Witness ==
    /\ AfterCompletion
    /\ fed = ops[1] + ops[3]
    /\ sinceFeed = 1
    /\ frames[1].ty = TypeHEADERS
    /\ Len(frames[1].payload) > 0
    /\ last.res = Some(FrameOf(frames[1]))

\* the whole wire was fed one byte at a time, decode called once after each
ByteAtATimeDone == bytewise /\ fed = Len(Wire) /\ sinceFeed = 1

\* C6 as stated: feeding one byte at a time yields the same sequence of
\* frames as giving the decoder the whole sequence at once.
C6_SameFrames == ByteAtATimeDone => out = DecodeAtOnce(Wire)

\* C6 amended: the two sequences are equal once consecutive Data chunks are
\* joined (a DATA payload of two or more bytes arrives as several chunks).
C6_SameFramesMerged == ByteAtATimeDone => Merge(out) = Merge(DecodeAtOnce(Wire))

C6_Witness ==
    /\ ByteAtATimeDone
    /\ Len(frames) = 2
    /\ frames[1].ty = TypeDATA
    /\ Len(frames[1].payload) >= 2
    /\ frames[2].ty = TypeHEADERS
    /\ Len(out) >= 3
    /\ out[Len(out)] = FrameOf(frames[2])

\* the first feed gave the decoder the whole wire
FedAtOnce == ~bytewise /\ ops # <<>> /\ ops[1] = Len(Wire)

\* C7: frames encoded back to back and given to a fresh decoder at once are
\* yielded in order, each decode consuming exactly the bytes of the frame it
\* yields, and the buffer is empty after the last.
C7_SequenceRoundTrip ==
    FedAtOnce =>
        /\ out = SubSeq(FramesOf(frames), 1, Len(out))
        /\ src = Advance(Wire, Len(EncodeAll(SubSeq(frames, 1, Len(out)))))
        /\ (sinceFeed > 0 /\ last.res # None) =>
              last.consumed = Len(EncodeFrame(frames[Len(out)]))
        /\ (sinceFeed > 0 /\ last.res = None) =>
              (out = FramesOf(frames) /\ src = <<>> /\ last.err = "None")

C7_Witness ==
    /\ FedAtOnce
    /\ Len(frames) = 2
    /\ out = FramesOf(frames)
    /\ src = <<>>
    /\ sinceFeed > 0
    /\ last.res = None

\* C21: a decode call made while a PartialData is present consumes the bytes
\* of the buffer up to `remaining` and no more, delivers exactly those bytes
\* as the payload of a Data frame (no frame header is parsed), fails with no
\* error, lowers `remaining` by the number of bytes consumed and clears the
\* PartialData when it reaches zero, and leaves the minimum alone; a
\* PartialData that is present has remaining > 0.
C21_PartialInvariant ==
    [][/\ (partial # None /\ ops' = Append(ops, 0)) =>
             LET rem == partial[1]
                 c == last'.consumed
             IN  /\ c = Min(rem, Len(src))
                 /\ src' = Advance(src, c)
                 /\ last'.err = "None"
                 /\ last'.res = (IF c = 0 THEN None ELSE Some(DataFrame(Take(src, c))))
                 /\ partial' = (IF rem = c THEN None ELSE Some(rem - c))
                 /\ expected' = expected
       /\ partial' # None => partial'[1] > 0]_vars

C21_Witness ==
    /\ bytewise
    /\ frames[1].ty = TypeDATA
    /\ Len(frames[1].payload) = 3
    /\ Len(out) = 3
    /\ \A i \in 1..3 : out[i] = DataFrame(<<frames[1].payload[i]>>)
    /\ last.consumed = 1
    /\ partial = None

(***************************************************************************)
(* Properties of the send driver.                                          *)
(***************************************************************************)
RECURSIVE DataFrames(_)
DataFrames(cs) ==
    IF cs = <<>> THEN <<>>
    ELSE EncodeFrame([ty |-> TypeDATA, payload |-> Head(cs)]) \o DataFrames(Tail(cs))

\* the HEADERS frame, one DATA frame per chunk, then the trailers if any
ExpectedWire ==
    EncodeFrame([ty |-> TypeHEADERS, payload |-> block])
    \o DataFrames(chunks)
    \o (IF trailers = None THEN <<>>
        ELSE EncodeFrame([ty |-> TypeHEADERS, payload |-> trailers[1]]))

IsPrefix(s, t) == Len(s) <= Len(t) /\ s = SubSeq(t, 1, Len(s))

\* C1: with no cancel and no error, the bytes the stream accepts are at every
\* moment a prefix of HEADERS . DATA_1 .. DATA_n . [trailers], finish is issued
\* only after all of them, and a poll that returns success has sent them all
\* and issued the finish.
C1_SendOrdering ==
    (cancels = 0 /\ ~errored) =>
        /\ IsPrefix(sent, ExpectedWire)
        /\ fin # None => (sent = ExpectedWire /\ fin = Some(Len(ExpectedWire)))
        /\ ret = "Ok" => (sent = ExpectedWire /\ fin = Some(Len(ExpectedWire)))

C1_Witness ==
    /\ cancels = 0
    /\ ~errored
    /\ ret = "Ok"
    /\ Len(chunks) = 2
    /\ Len(chunks[1]) = 2
    /\ Len(chunks[2]) = 2
    /\ trailers # None
    /\ sent = ExpectedWire
    /\ fin = Some(Len(sent))

\* the driver is writing a frame: its writer holds the send stream
WritingFrame == sstate \in {"Headers", "Write", "Trailers"} /\ writer.holds

\* C2: a cancel in a state that is not Finished ends in Finished; if a writer
\* holds the stream, a reset with REQUEST_CANCELLED is issued through it, and
\* otherwise the stream the driver holds is reset with REQUEST_CANCELLED.
C2_CancelResets ==
    [][(cancels' = cancels + 1 /\ sstate # "Finished") =>
          /\ sstate' = "Finished"
          /\ WritingFrame => resets' = Append(resets, "REQUEST_CANCELLED")
          /\ (~WritingFrame /\ send) => resets' = Append(resets, "REQUEST_CANCELLED")]_vars

\* C3: the state after a cancel is Finished; after the first cancel no step
\* issues a reset, a write or a finish, the state stays Finished, and every
\* poll returns Ready(success).
C3_CancelFinal ==
    [][/\ cancels' > 0 => sstate' = "Finished"
       /\ cancels > 0 =>
             /\ resets' = resets
             /\ sent' = sent
             /\ fin' = fin
             /\ cancels' = cancels => (ret' = "Ok" /\ ~running' /\ ~panicked')]_vars

C3_Witness ==
    /\ cancels = 2
    /\ sstate = "Finished"
    /\ resets = <<"REQUEST_CANCELLED">>
    /\ sent # <<>>
    /\ fin = None
    /\ ret = "Ok"

\* C12: a poll in PollBody that returns a body error resets the send stream
\* with REQUEST_CANCELLED, and the step after it writes nothing and issues no
\* finish.
C12_BodyErrorResets ==
    [][/\ (sstate = "PollBody" /\ ret' = "ErrBody" /\ cancels' = cancels) =>
             resets' = Append(resets, "REQUEST_CANCELLED")
       /\ ret = "ErrBody" => (sent' = sent /\ fin' = fin)]_vars

\* a poll that is a programmer error: the driver had already returned an error
ProgrammerError == errored

\* C13: a poll in PollTrailers of a driver that holds its stream does not
\* panic, and a poll panics only if it is a programmer error.
C13_NoPanicOnFailure ==
    [][/\ (sstate = "PollTrailers" /\ send /\ ~errored /\ cancels' = cancels) => ~panicked'
       /\ (~panicked /\ panicked') => ProgrammerError]_vars

\* C14: on a driver whose stream is live (no cancel, no error, no finish),
\* poll_stopped returns Ready only if the peer has stopped the stream, then
\* with the peer's reason, and is Pending otherwise; it gives the answer of
\* the writer when a writer holds the stream, and of the stream otherwise.
C14_StoppedOnlyWhenStopped ==
    [][(stopped' # stopped /\ cancels = 0 /\ ~errored /\ fin = None) =>
          LET p == stopped'.peer
              r == [res |-> stopped'.res, reason |-> stopped'.reason]
          IN  /\ r.res = "Ready" => (p # None /\ r.reason = p)
              /\ p = None => r.res = "Pending"
              /\ WritingFrame => r = WriteFrame_poll_stopped(writer, p)
              /\ (~WritingFrame /\ send) => r = Stream_poll_stopped(p)]_vars

\* C15: the poll in Closing in which the finish of the stream succeeds
\* notifies the connection if and only if the finish flag is set, returns
\* Ready(success) and moves to Finished; and Finished is never left.
C15_ClosingToFinished ==
    [][/\ (sstate = "Closing" /\ completions' = completions + 1) =>
             /\ notified' = (IF finish THEN notified + 1 ELSE notified)
             /\ ret' = "Ok"
             /\ sstate' = "Finished"
       /\ sstate = "Finished" => sstate' = "Finished"]_vars

\* the states in which the driver itself is to hold the send stream
DriverHolds == {"Initial", "PollBody", "PollTrailers", "Closing"}

\* the states in which the frame writer is to hold the send stream
WriterHolds == {"Headers", "Write", "Trailers"}

\* exactly one holder owns the send stream, the one the state names
OneHolder ==
    /\ sstate \in DriverHolds => (send /\ ~writer.holds)
    /\ sstate \in WriterHolds => (writer.holds /\ ~send)

\* the send half was consumed by a reset or a finish
Consumed19 == resets # <<>> \/ fin # None

\* C19 as stated: in every state before the half is consumed by a reset or a
\* finish, exactly one holder owns the send stream.
C19_LinearOwnership == ~Consumed19 => OneHolder

\* what the code keeps: until a poll has returned an error, exactly one
\* holder owns the send stream, the one the state names
LinearUntilError == (~Consumed19 /\ ~errored) => OneHolder

\* a DATA frame writer has handed the stream back to the driver
HandedBack ==
    /\ sstate = "PollBody"
    /\ send
    /\ ~writer.holds
    /\ ~errored
    /\ ~Consumed19
    /\ Len(chunks) = 2
    /\ Len(body) = 1
    /\ sent # <<>>

\* no cancel, no failure of the body (chunk or trailers), no failure of the
\* transport (write or finish)
NoBodyOrTransportFailure ==
    /\ cancels = 0
    /\ ret \notin {"ErrBody", "ErrWrite", "ErrFinish"}
    /\ ~(panicked /\ sstate = "PollTrailers")

\* poll has returned Ready(success) from Closing, everything sent and finished
ReturnedSuccess ==
    /\ ret = "Ok"
    /\ sstate = "Closing"
    /\ sent = ExpectedWire
    /\ fin = Some(Len(ExpectedWire))

\* C22 as stated: a driver that is never cancelled, whose body and transport
\* never fail, under a fair environment, eventually returns Ready(success)
\* from Closing.
C22_Terminates == []NoBodyOrTransportFailure => <>ReturnedSuccess

\* C22: a driver that is never cancelled, whose body and transport never fail
\* and whose headers and trailers the QPACK encoder accepts, under a fair
\* environment, eventually returns Ready(success) from Closing with every
\* frame sent and the finish issued.
C22_TerminatesIfEncoded ==
    [](NoBodyOrTransportFailure /\ ~errored) => <>ReturnedSuccess

C22_Witness ==
    /\ ReturnedSuccess
    /\ cancels = 0
    /\ ~errored
    /\ completions = 1
    /\ Len(chunks) = MaxChunks
    /\ trailers = None
    /\ finish

\* C23: request_finished is reported to the connection at most once, only
\* by a driver whose finish flag is set and whose stream finish was issued
\* and has succeeded, and never after a cancel or after a poll has returned
\* an error.
C23_NotifiedOnce ==
    [][notified' # notified =>
          /\ notified = 0
          /\ notified' = 1
          /\ finish
          /\ fin' # None
          /\ ret' = "Ok"
          /\ cancels = 0
          /\ ~errored]_vars

\* what the code keeps of it: request_finished is reported only by a poll
\* that returns success from Closing with the finish flag set and the finish
\* issued, and never after a cancel
NotifiedOnlyOnFinish ==
    [][notified' # notified =>
          /\ notified' = notified + 1
          /\ sstate = "Closing"
          /\ finish
          /\ fin' # None
          /\ ret' = "Ok"
          /\ cancels = 0]_vars

(***************************************************************************)
(* Properties of the receive driver.                                       *)
(***************************************************************************)
\* this step is a poll that takes the next item from the frame reader
Reads == rpos' = rpos + 1

\* the item such a step takes
Read == rxAll[rpos + 1]

IsFrame(item, kinds) == item.tag = "Frame" /\ item.kind \in kinds

\* C8: when the frame the driver reads while waiting for the first HEADERS
\* is neither Reserved nor HEADERS, that poll issues stop-sending with
\* FRAME_UNEXPECTED, returns a peer-misbehaviour error and returns no header
\* block and no body reader.
C8_UnexpectedFirstFrame ==
    [][(Reads /\ IsFrame(Read, {"Data", "Settings"})) =>
          /\ stops' = Append(stops, "FRAME_UNEXPECTED")
          /\ rret' = "ErrPeer"
          /\ ~rrunning'
          /\ result' = None
          /\ recv']_vars

C8_Witness ==
    /\ rpos = 2
    /\ IsFrame(rxAll[1], {"Reserved"})
    /\ IsFrame(rxAll[2], {"Data"})
    /\ stops = <<"FRAME_UNEXPECTED">>
    /\ rret = "ErrPeer"
    /\ result = None

\* C9: a Reserved frame read before the first HEADERS frame is discarded and
\* reading goes on; the first HEADERS frame read is the one given to the QPACK
\* decode; the driver stays in Decoding, holding the stream, while the decode
\* is Pending; when the decode succeeds the poll returns the header decoded
\* from that frame and a body reader holding the receive stream at the
\* position the driver left it, and the driver is Finished and holds none.
C9_HeadersHandOff ==
    [][/\ (Reads /\ IsFrame(Read, {"Reserved"})) =>
             /\ rstate' = "Receiving"
             /\ rrunning'
             /\ stops' = stops
             /\ result' = None
       /\ (Reads /\ IsFrame(Read, {"Headers"})) =>
             /\ rstate' = "Decoding"
             /\ decoding' = Some(rpos')
             /\ \A j \in 1..rpos : ~IsFrame(rxAll[j], {"Headers"})
             /\ stops' = stops
       /\ (rstate = "Decoding" /\ rresets' = rresets) =>
             /\ submitted' = decoding
             /\ rpos' = rpos
             /\ rret' = "Pending" => (rstate' = "Decoding" /\ recv' /\ result' = None)
             /\ rret' = "Ok" =>
                   /\ result' = Some([header |-> decoding[1], body |-> rpos])
                   /\ recv
                   /\ ~recv'
                   /\ rstate' = "Finished"
       /\ rstate' = "Finished" => (~recv' /\ result' # None)
       /\ result' # None => rstate' = "Finished"]_vars

C9_Witness ==
    /\ rstate = "Finished"
    /\ rret = "Ok"
    /\ ~recv
    /\ Len(rxAll) = 3
    /\ IsFrame(rxAll[1], {"Reserved"})
    /\ IsFrame(rxAll[2], {"Headers"})
    /\ result = Some([header |-> 2, body |-> 2])
    /\ stops = <<>>

\* the code each codec failure is to be given
CodecCode(kind) ==
    CASE kind = "Settings" -> "SETTINGS_ERROR"
      [] kind = "UnsupportedFrame" -> "FRAME_UNEXPECTED"
      [] kind = "Io" -> "GENERAL_PROTOCOL_ERROR"
      [] OTHER -> "FRAME_ERROR"

\* C10: when the frame reader reports a codec failure to a driver in
\* Receiving, that poll issues stop-sending with the code of the failure
\* (SETTINGS_ERROR, FRAME_UNEXPECTED, FRAME_ERROR, GENERAL_PROTOCOL_ERROR)
\* and fails.
C10_CodecFailureCode ==
    [][(Reads /\ Read.tag = "Err") =>
          /\ rstate = "Receiving"
          /\ stops' = Append(stops, CodecCode(Read.kind))
          /\ rret' = "ErrFrame"
          /\ ~rrunning'
          /\ result' = None]_vars

C10_Witness ==
    /\ rpos = 2
    /\ IsFrame(rxAll[1], {"Reserved"})
    /\ rxAll[2] = ErrItem("Settings")
    /\ stops = <<"SETTINGS_ERROR">>
    /\ rret = "ErrFrame"

\* C11: a poll of a driver in Receiving whose frame reader has reached the end
\* of the stream fails with a peer-misbehaviour error, issues no stop-sending
\* and returns nothing; and whenever a header block was returned, a HEADERS
\* frame had been read.
C11_EndBeforeHeaders ==
    [][/\ (rstate = "Receiving" /\ rpos = Len(rxAll) /\ rresets' = rresets
               /\ rret' # "Pending") =>
             /\ rret' = "ErrPeer"
             /\ ~rrunning'
             /\ result' = None
             /\ stops' = stops
             /\ rstate' = "Receiving"
       /\ result' # None => \E j \in 1..rpos' : IsFrame(rxAll[j], {"Headers"})]_vars

C11_Witness ==
    /\ Len(rxAll) = 2
    /\ rpos = 2
    /\ IsFrame(rxAll[1], {"Reserved"})
    /\ IsFrame(rxAll[2], {"Reserved"})
    /\ rstate = "Receiving"
    /\ rret = "ErrPeer"
    /\ result = None
    /\ stops = <<>>

\* the panics of the send driver other than the one of the PollTrailers arm
\* are polls of a driver that had returned an error
PanicsElsewhere ==
    [][(~panicked /\ panicked' /\ sstate # "PollTrailers") => ProgrammerError]_vars

(***************************************************************************)
(* Properties of the frame writer.                                         *)
(***************************************************************************)
\* the encoded frame the writer under test was made for
WrittenFrame ==
    writer.header \o (IF block # <<>> THEN block
                      ELSE IF chunks # <<>> THEN chunks[1] ELSE <<>>)

\* the bytes the writer has yet to have accepted, from its position
Remaining(w) ==
    IF w.st = "Header" THEN SubSeq(w.header, w.start + 1, Len(w.header)) \o w.payload
    ELSE w.payload

\* C16: a poll of a receive driver that has returned success, and a poll of
\* a frame writer that has returned the send stream, panics: it returns no
\* result, reads no frame, stops no stream, writes no byte and resets nothing.
C16_PollAfterDone ==
    [][/\ (rstate = "Finished" /\ recvVars' # recvVars) =>
             /\ rpanicked'
             /\ rret' = "Panic"
             /\ result' = result
             /\ recv' = recv
             /\ rpos' = rpos
             /\ stops' = stops
       /\ (sstate = "Writer" /\ writer.st = "Finished" /\ sendVars' # sendVars) =>
             /\ panicked'
             /\ ret' = "Panic"
             /\ sent' = sent
             /\ send' = send
             /\ writer' = writer
             /\ resets' = resets]_vars

C16_Witness ==
    /\ rstate = "Finished"
    /\ result # None
    /\ rpanicked
    /\ rret = "Panic"
    /\ sstate = "Writer"
    /\ writer.st = "Finished"
    /\ send
    /\ sent = WrittenFrame
    /\ panicked
    /\ ret = "Panic"

\* C17: the bytes the stream has accepted from a writer, followed by the
\* bytes the writer has left from its position, are always the encoded
\* header followed by the payload; the writer is past its header only when
\* the whole header was accepted; and when poll returns the stream every byte
\* of the frame was accepted, once and in order.
C17_WriterOrdering ==
    sstate = "Writer" =>
        /\ sent \o Remaining(writer) = WrittenFrame
        /\ writer.st # "Header" => Len(sent) >= Len(writer.header)
        /\ writer.st = "Header" => writer.start = Len(sent)
        /\ ret = "Ok" => (sent = WrittenFrame /\ send)

C17_Witness ==
    /\ sstate = "Writer"
    /\ ret = "Ok"
    /\ send
    /\ ~errored
    /\ resets = <<>>
    /\ Len(writer.header) = 2
    /\ Len(sent) = 2 + MaxChunk
    /\ sent = WrittenFrame

\* C18: a reset of a writer that is in Header or Payload and holds the stream
\* issues one reset with the code given and leaves the writer without the
\* stream, and once a reset was issued no poll of the writer writes a byte.
C18_ResetRelinquishes ==
    [][/\ (sstate = "Writer" /\ cancels' = cancels + 1 /\ writer.holds
               /\ writer.st \in {"Header", "Payload"}) =>
             /\ \E code \in ResetCodes : resets' = Append(resets, code)
             /\ ~writer'.holds
       /\ (sstate = "Writer" /\ resets # <<>>) => sent' = sent]_vars

(***************************************************************************)
(* Properties of the mutex of the connection.                              *)
(***************************************************************************)
\* C20: no driver that is suspended or has returned holds the mutex of the
\* connection, whoever holds it is inside the poll step that locked it, and
\* no driver locks the mutex while holding it.
C20_LockNotHeldSuspended ==
    /\ \A i \in DOMAIN drv :
          /\ drv[i].mode \in {"Suspended", "Returned"} => lock # Some(i)
          /\ drv[i].mode # "Deadlocked"
    /\ lock # None => drv[lock[1]].mode = "Locked"

C20_Witness ==
    \E i, j \in DOMAIN drv :
       /\ drv[i].kind = "Recv"
       /\ drv[i].at = "Decoding"
       /\ drv[i].mode = "Suspended"
       /\ drv[j].kind = "Send"
       /\ drv[j].at = "Notify"
       /\ drv[j].mode = "Locked"
       /\ lock = Some(j)

(***************************************************************************)
(* Properties of the hand-off from the receive driver to the body reader.  *)
(***************************************************************************)
\* the items the body reader of a result will read from its frame reader
BodyItems(res) == SubSeq(rxAll, res.body + 1, Len(rxAll))

\* the items that follow the i-th item on the receive stream
ItemsAfter(i) == SubSeq(rxAll, i + 1, Len(rxAll))

\* C24: from the read of the first HEADERS frame to the return of success the
\* driver reads nothing from its frame reader, whatever the decode polls
\* return, and the body reader returned reads exactly the items that follow
\* that HEADERS frame, in order.
C24_HandOffLosesNothing ==
    [][/\ (rstate = "Decoding" /\ rresets' = rresets) =>
             /\ rpos' = rpos
             /\ rpos = decoding[1]
             /\ rstate' # "Finished" => recv'
       /\ result' # None =>
             /\ IsFrame(rxAll[result'[1].header], {"Headers"})
             /\ BodyItems(result'[1]) = ItemsAfter(result'[1].header)
             /\ rpos' = result'[1].header]_vars

C24_Witness ==
    /\ rret = "Ok"
    /\ result = Some([header |-> 1, body |-> 1])
    /\ Len(rxAll) = 3
    /\ IsFrame(rxAll[1], {"Headers"})
    /\ IsFrame(rxAll[2], {"Data"})
    /\ IsFrame(rxAll[3], {"Headers"})
    /\ BodyItems(result[1]) = <<rxAll[2], rxAll[3]>>
    /\ rpos = 1
=============================================================================
